---- MODULE Spec2Model ----
(***************************************************************************)
(* CowReader (fs_mgr/libsnapshot/cow_reader.cpp): the reader of a          *)
(* copy-on-write operation log.                                            *)
(*                                                                         *)
(* A file is a sequence of bytes.  The reader's structs (CowHeader,        *)
(* CowOperation, CowFooter) are kept as the packed memory images the code  *)
(* reads with ReadFully; their fields are decoded (little endian) where    *)
(* the code accesses them.  Parse is modelled in steps: ParseBegin         *)
(* (Parse and the prologue of ParseOps), ScanStep (one iteration of the    *)
(* record loop) and ParseFinish (footer verification, merge trimming and   *)
(* publication of the sequence).                                           *)
(*                                                                         *)
(* Spec parses one file on a new reader; SpecHeader, SpecShort and         *)
(* SpecLive do so for other families of files; SpecReparse and SpecShared  *)
(* give one reader a file after the other; SpecIter and SpecShared run     *)
(* the iterators, SpecRaw calls GetRawBytes, SpecData calls ReadData.      *)
(***************************************************************************)
EXTENDS Integers, Sequences, FiniteSets, TLC

(***************************************************************************)
(* Bounds of the model.                                                    *)
(***************************************************************************)
\* records written into a generated file
MaxOps == 3
\* largest num_merge_ops a generated header declares
MaxMergeOps == 1
\* largest label value written
MaxLabel == 2
\* payload bytes following a generated Replace record
PayloadLen == 2
\* bytes torn off the end of a file by an interrupted write
CutLen == 3
\* stale bytes left behind the last thing written (file not truncated)
TailLen == 8
\* iterators created on one reader
MaxIters == 2
\* width of the model's unsigned words (uint64_t / size_t in the code)
WordBits == 12
\* bytes torn off the payload of the last record by an interrupted write
PayloadCut == 1
\* Read calls a decompressor makes on one stream
MaxReads == 3
\* records in the files parsed for the iterators, for GetRawBytes and for
\* the header checks
MaxClientOps == 2

(***************************************************************************)
(* The on-disk format (libsnapshot/cow_format.h, cow_format.cpp).          *)
(***************************************************************************)
kCowCopyOp == 1
kCowReplaceOp == 2
kCowZeroOp == 3
kCowLabelOp == 4
\* uint8_t kCowFooterOp = -1
kCowFooterOp == 255
kCowCompressNone == 0
kCowCompressGz == 1
kCowCompressBrotli == 2
kCowVersionMajor == 1
kCowVersionMinor == 0
\* kCowMagicNumber = 0x436f77634f572121, as it lies in the file
kCowMagicBytes == <<33, 33, 87, 79, 99, 119, 111, 67>>
\* sizeof(CowHeader), sizeof(CowOperation), sizeof(CowFooterOperation),
\* sizeof(CowFooterData), sizeof(CowFooter); all structs are packed
SizeofCowHeader == 28
SizeofCowOperation == 20
SizeofCowFooterOperation == 20
SizeofCowFooterData == 64
SizeofCowFooter == SizeofCowFooterOperation + SizeofCowFooterData
SizeofChecksum == 32

Byte == 0..255

\* n copies of byte b
Fill(n, b) == [i \in 1..n |-> b]

\* the n-byte little-endian image of v
RECURSIVE EncodeLE(_, _)
EncodeLE(v, n) == IF n = 0 THEN <<>> ELSE <<v % 256>> \o EncodeLE(v \div 256, n - 1)

\* the value of a little-endian image
RECURSIVE DecodeLE(_)
DecodeLE(b) == IF b = <<>> THEN 0 ELSE b[1] + 256 * DecodeLE(Tail(b))

\* bytes [off, off + n) of a memory image (off counts from 0)
Field(b, off, n) == SubSeq(b, off + 1, off + n)

\* struct CowHeader { magic; major_version; minor_version; header_size;
\*                    footer_size; block_size; num_merge_ops; }
CowHeader(magic, major, minor, hsize, fsize, bsize, merged) ==
    magic \o EncodeLE(major, 2) \o EncodeLE(minor, 2) \o EncodeLE(hsize, 2)
          \o EncodeLE(fsize, 2) \o EncodeLE(bsize, 4) \o EncodeLE(merged, 8)
HeaderMagic(h) == Field(h, 0, 8)
HeaderMajor(h) == DecodeLE(Field(h, 8, 2))
HeaderMinor(h) == DecodeLE(Field(h, 10, 2))
HeaderSize(h) == DecodeLE(Field(h, 12, 2))
HeaderFooterSize(h) == DecodeLE(Field(h, 14, 2))
HeaderNumMergeOps(h) == DecodeLE(Field(h, 20, 8))

\* struct CowOperation { type; compression; data_length; new_block; source; }
CowOperation(type, compression, data_length, new_block, source) ==
    <<type, compression>> \o EncodeLE(data_length, 2) \o EncodeLE(new_block, 8)
                          \o EncodeLE(source, 8)
OpType(op) == op[1]
OpCompression(op) == op[2]
OpDataLength(op) == DecodeLE(Field(op, 2, 2))
OpSource(op) == DecodeLE(Field(op, 12, 8))

\* struct CowFooterOperation { type; compression; data_length; ops_size; num_ops; }
\* struct CowFooterData { ops_checksum[32]; footer_checksum[32]; }
CowFooter(ops_size, num_ops, ops_ck, footer_ck) ==
    <<kCowFooterOp, kCowCompressNone>> \o EncodeLE(SizeofCowFooterData, 2)
        \o EncodeLE(ops_size, 8) \o EncodeLE(num_ops, 8)
        \o Fill(SizeofChecksum, ops_ck) \o Fill(SizeofChecksum, footer_ck)
FooterOp(f) == Field(f, 0, SizeofCowFooterOperation)
FooterData(f) == Field(f, SizeofCowFooterOperation, SizeofCowFooterData)
FooterType(f) == f[1]
FooterOpsSize(f) == DecodeLE(Field(f, 4, 8))
FooterNumOps(f) == DecodeLE(Field(f, 12, 8))
FooterOpsChecksum(f) == Field(f, 20, SizeofChecksum)
FooterFooterChecksum(f) == Field(f, 52, SizeofChecksum)

\* int64_t GetNextOpOffset(const CowOperation& op): the payload that follows
\* the record in the file
GetNextOpOffset(op) == IF OpType(op) = kCowReplaceOp THEN OpDataLength(op) ELSE 0

(***************************************************************************)
(* The files given to Parse: what a writer leaves behind.  A header, the   *)
(* records written (a Replace record is followed by its payload), then     *)
(* possibly a footer; the end of the file is exact, torn off by CutLen     *)
(* bytes, or followed by TailLen stale bytes.                              *)
(***************************************************************************)
WrittenOps ==
    {CowOperation(kCowCopyOp, kCowCompressNone, 0, 1, 0),
     CowOperation(kCowReplaceOp, kCowCompressNone, PayloadLen, 1, SizeofCowHeader),
     CowOperation(kCowZeroOp, kCowCompressNone, 0, 1, 0)}
    \cup {CowOperation(kCowLabelOp, kCowCompressNone, 0, 0, l) : l \in 1..MaxLabel}

RECURSIVE SeqsUpTo(_, _)
SeqsUpTo(S, n) ==
    IF n = 0 THEN {<<>>}
    ELSE LET shorter == SeqsUpTo(S, n - 1)
         IN shorter \cup {Append(q, x) : q \in {r \in shorter : Len(r) = n - 1}, x \in S}

\* the footers a file may carry after n records: the one the writer computes,
\* and the ones that declare one operation too many, or one record's size too
\* much, or both, or carry a digest that is not zero
FooterVariants == {<<0, 0, 0, 0>>, <<1, 1, 0, 0>>, <<1, 0, 0, 0>>, <<0, 1, 0, 0>>,
                   <<0, 0, 1, 0>>, <<0, 0, 0, 1>>}
FootersFor(n) ==
    {CowFooter(SizeofCowOperation * (n + v[2]), n + v[1], v[3], v[4]) :
        v \in FooterVariants}

Ends == {"exact", "torn", "stale"}

\* the records of a file and what follows them: no footer, or one footer
BodiesAndFooters ==
    UNION {{<<r, <<>> >>} \cup {<<r, <<f>> >> : f \in FootersFor(Len(r))} :
              r \in SeqsUpTo(WrittenOps, MaxOps)}

\* the header of a file: the one of the supported format, or one that differs
\* from it in a single field
HeaderKinds == {"good", "magic", "header_size", "footer_size", "major", "minor"}

HeaderBytes(kind, merged) ==
    CowHeader(IF kind = "magic" THEN <<32>> \o Tail(kCowMagicBytes) ELSE kCowMagicBytes,
              IF kind = "major" THEN kCowVersionMajor + 1 ELSE kCowVersionMajor,
              IF kind = "minor" THEN kCowVersionMinor + 1 ELSE kCowVersionMinor,
              IF kind = "header_size" THEN SizeofCowHeader + 1 ELSE SizeofCowHeader,
              IF kind = "footer_size" THEN SizeofCowFooter + 1 ELSE SizeofCowFooter,
              4096, merged)

FileDescs ==
    {[hdr |-> "good", merged |-> k, recs |-> rf[1], foot |-> rf[2], end |-> e] :
        k \in 0..MaxMergeOps, e \in Ends, rf \in BodiesAndFooters}

\* a record as it lies in the file: the struct, then its payload
RecordBytes(op) == op \o Fill(GetNextOpOffset(op), 0)

RECURSIVE Concat(_)
Concat(ss) == IF ss = <<>> THEN <<>> ELSE Head(ss) \o Concat(Tail(ss))

FileBytes(d) ==
    LET whole == HeaderBytes(d.hdr, d.merged)
                 \o Concat([i \in 1..Len(d.recs) |-> RecordBytes(d.recs[i])])
                 \o Concat(d.foot)
    IN CASE d.end = "exact" -> whole
         [] d.end = "torn" -> SubSeq(whole, 1, Len(whole) - CutLen)
         [] d.end = "short" -> SubSeq(whole, 1, Len(whole) - PayloadCut)
         [] d.end = "stale" -> whole \o Fill(TailLen, 0)

(***************************************************************************)
(* The reader.                                                             *)
(***************************************************************************)
VARIABLES
    \* CowReader's members.  fd_ is <<>> for -1 and <<d>> for the file d;
    \* ops_ is <<>> for the null pointer and <<v>> for a pointer to vector v
    fd_, header_, footer_, fd_size_, has_footer_, last_label_, has_last_label_, ops_,
    \* ParseOps' locals.  next_last_label is <<>> or <<value>>
    pos, next_last_label, ops_buffer, current_op_num, last_pos,
    \* where Parse stands ("idle", "scan", "verify", "done") and what it returned
    \* ("none", "true", "false", or "abort" when the process was ended)
    pc, result,
    \* history: the records in ops_buffer when the scan ended, and whether
    \* the trimming walk read past the end of ops_buffer
    scanned, walk_oob,
    \* the iterators made by GetOpIter and GetRevOpIter, in the order made
    iters,
    \* the last call of GetRawBytes: its arguments, what it returned in ok and
    \* *read, and the lseek and read calls it made on the file
    raw,
    \* the CowDataStream of the ReadData call under way: its members, and its
    \* history (the constructor's arguments o and n, the bytes delivered, the
    \* Read calls made and the last of them)
    stream,
    \* the last call of ReadData: its operation, where it stands, what it
    \* returned, and what it did (GetRawBytes calls, bytes given to the sink)
    read_data

reader_vars == <<fd_, header_, footer_, fd_size_, has_footer_, last_label_,
                 has_last_label_, ops_>>
parse_vars == <<pos, next_last_label, ops_buffer, current_op_num, last_pos, pc, result,
                scanned, walk_oob>>
data_vars == <<stream, read_data>>
client_vars == <<iters, raw, data_vars>>
vars == <<reader_vars, parse_vars, client_vars>>

\* unsigned arithmetic of the width of the model's words
WordMod == 2 ^ WordBits
U(x) == x % WordMod

\* static void SHA256(const void*, size_t, uint8_t out[]): the body is compiled
\* out, so the buffer it is given is left as it was
SHA256(data, length, out) == out

\* android::base::ReadFully(fd, buf, n) at file position at: the bytes that are
\* there are stored into buf, and the call succeeds if all n were there
ReadFully(bytes, at, buf) ==
    LET n == Len(buf)
        left == IF Len(bytes) > at THEN Len(bytes) - at ELSE 0
        got == IF left < n THEN left ELSE n
    IN [ok |-> got = n,
        buf |-> SubSeq(bytes, at + 1, at + got) \o SubSeq(buf, got + 1, n)]

\* GetRawBytes not called yet
NoRawCall == [called |-> FALSE, offset |-> 0, len |-> 0, ok |-> FALSE, read |-> 0,
              seeks |-> 0, reads |-> 0]

\* no Read call made yet on a stream
NoRead == [called |-> FALSE, length |-> 0, before |-> 0, ok |-> FALSE, read |-> 0,
           raw_called |-> FALSE, req_offset |-> 0, req_len |-> 0]

\* no CowDataStream constructed
NoStream == [made |-> FALSE, offset_ |-> 0, data_length_ |-> 0, remaining_ |-> 0,
             o |-> 0, n |-> 0, delivered |-> 0, calls |-> 0, last |-> NoRead]

\* ReadData not called yet
NoReadData == [at |-> "idle", op |-> <<>>, decompressor |-> "none", ok |-> FALSE,
               raw_calls |-> 0, sink |-> 0, failed_read |-> FALSE]

\* CowReader::CowReader()
Init ==
    /\ fd_ = <<>>
    /\ header_ = Fill(SizeofCowHeader, 0)
    /\ footer_ = Fill(SizeofCowFooter, 0)
    /\ fd_size_ = 0
    /\ has_footer_ = FALSE
    /\ last_label_ = 0
    /\ has_last_label_ = FALSE
    /\ ops_ = <<>>
    /\ pos = 0
    /\ next_last_label = <<>>
    /\ ops_buffer = <<>>
    /\ current_op_num = 0
    /\ last_pos = 0
    /\ pc = "idle"
    /\ result = "none"
    /\ scanned = <<>>
    /\ walk_oob = FALSE
    /\ iters = <<>>
    /\ raw = NoRawCall
    /\ stream = NoStream
    /\ read_data = NoReadData

\* (mutation: the minor version is not looked at)
HeaderAccepted_AnyMinor(h) ==
    /\ HeaderMagic(h) = kCowMagicBytes
    /\ HeaderSize(h) = SizeofCowHeader
    /\ HeaderFooterSize(h) = SizeofCowFooter
    /\ HeaderMajor(h) = kCowVersionMajor

\* the header checks of Parse
HeaderAccepted(h) ==
    /\ HeaderMagic(h) = kCowMagicBytes
    /\ HeaderSize(h) = SizeofCowHeader
    /\ HeaderFooterSize(h) = SizeofCowFooter
    /\ HeaderMajor(h) = kCowVersionMajor
    /\ HeaderMinor(h) = kCowVersionMinor

\* last_pos: the scan looks until the last possible non-footer position
LastPos(size, has_footer) ==
    size - (IF has_footer THEN SizeofCowFooter ELSE SizeofCowOperation)

\* Parse(fd) up to the call of ParseOps, and ParseOps up to its loop
ParseBegin(d) ==
    /\ \E bytes \in {FileBytes(d)} :
       \E hdr \in {ReadFully(bytes, 0, header_)} :
       LET size == Len(bytes)
           \* lseek(fd, -footer_size, SEEK_END) fails on a shorter file and
           \* leaves the position behind the header
           fsize == HeaderFooterSize(hdr.buf)
           footer_pos == IF size >= fsize THEN size - fsize ELSE -1
           at == IF footer_pos = -1 THEN SizeofCowHeader ELSE footer_pos
           checked == hdr.ok /\ HeaderAccepted(hdr.buf)
           sought == checked /\ U(footer_pos) = U(size - fsize)
       IN \E ftr \in {IF sought THEN ReadFully(bytes, at, footer_)
                                ELSE [ok |-> FALSE, buf |-> footer_]} :
          \E has \in {FooterType(ftr.buf) = kCowFooterOp} :
             /\ fd_' = <<d>>
             /\ fd_size_' = size
             /\ header_' = hdr.buf
             /\ footer_' = ftr.buf
             /\ has_footer_' = IF ftr.ok THEN has ELSE has_footer_
             /\ pos' = IF ftr.ok THEN SizeofCowHeader ELSE pos
             /\ next_last_label' = <<>>
             /\ ops_buffer' = <<>>
             /\ current_op_num' = 0
             /\ last_pos' = IF ftr.ok THEN LastPos(size, has) ELSE last_pos
             /\ pc' = IF ~ftr.ok THEN "done"
                      ELSE IF SizeofCowHeader < LastPos(size, has) THEN "scan"
                      ELSE "verify"
             /\ result' = IF ftr.ok THEN "none" ELSE "false"
             /\ scanned' = <<>>
             /\ walk_oob' = FALSE
    /\ UNCHANGED <<last_label_, has_last_label_, ops_, client_vars>>

\* bool CowReader::Parse(android::base::borrowed_fd fd), on a new reader, of
\* one of the files S
ParseOf(S) == pc = "idle" /\ \E d \in S : ParseBegin(d)

\* Parse called again on a reader whose earlier Parse has returned
ReparseOf(S) == pc = "done" /\ result \in {"true", "false"} /\ \E d \in S : ParseBegin(d)

Parse == ParseOf(FileDescs)

\* the label watermark as one value
Watermark == [has |-> has_last_label_, val |-> last_label_]

\* "if (next_last_label)": a pending label is committed by the next record read
PromotePending(pending, mark) ==
    IF pending # <<>> THEN [has |-> TRUE, val |-> pending[1]] ELSE mark

\* (mutation: a Label is committed at once, footer or not)
OnLabel_CommitsAtOnce(has_footer, source, mark, pending) ==
    [mark |-> [has |-> TRUE, val |-> source], pending |-> pending]

\* (mutation: a Label always waits for the next record)
OnLabel_AlwaysWaits(has_footer, source, mark, pending) ==
    [mark |-> mark, pending |-> <<source>>]

\* the kCowLabelOp branch: with a footer the label is committed at once,
\* without one it waits for the next record
OnLabel(has_footer, source, mark, pending) ==
    IF has_footer
    THEN [mark |-> [has |-> TRUE, val |-> source], pending |-> pending]
    ELSE [mark |-> mark, pending |-> <<source>>]

\* (mutation: the position is left where the record starts)
NextOpPos_Stuck(at, op) == at

\* pos = lseek(fd, GetNextOpOffset(current_op), SEEK_CUR), the record having
\* been read at position at
NextOpPos(at, op) == at + SizeofCowOperation + GetNextOpOffset(op)

\* one iteration of "while (pos < last_pos)"
ScanStep ==
    /\ pc = "scan"
    /\ \E bytes \in {FileBytes(fd_[1])} :
       \E rd \in {ReadFully(bytes, pos, Fill(SizeofCowOperation, 0))} :
       \E promoted \in {PromotePending(next_last_label, Watermark)} :
       LET \* ops_buffer->resize(current_op_num + 1)
           resized == SubSeq(ops_buffer, 1, current_op_num)
           current_op == rd.buf
           \* lseek(fd, GetNextOpOffset(current_op), SEEK_CUR)
           new_pos == NextOpPos(pos, current_op)
           labelled == OnLabel(has_footer_, OpSource(current_op), promoted,
                               next_last_label)
           data == ReadFully(bytes, new_pos, FooterData(footer_))
       IN /\ ops_buffer' = Append(resized, current_op)
          /\ IF ~rd.ok
             THEN /\ pc' = "done"
                  /\ result' = "false"
                  /\ UNCHANGED <<pos, current_op_num, next_last_label, footer_,
                                 has_footer_, last_label_, has_last_label_>>
             ELSE IF OpType(current_op) = kCowLabelOp
             THEN /\ pos' = new_pos
                  /\ current_op_num' = current_op_num + 1
                  /\ has_last_label_' = labelled.mark.has
                  /\ last_label_' = labelled.mark.val
                  /\ next_last_label' = labelled.pending
                  /\ pc' = IF new_pos < last_pos THEN "scan" ELSE "verify"
                  /\ UNCHANGED <<footer_, has_footer_, result>>
             ELSE IF OpType(current_op) = kCowFooterOp
             THEN \* memcpy into footer_.op, current_op_num--, read footer_.data, break
                  /\ pos' = new_pos
                  /\ current_op_num' = current_op_num
                  /\ footer_' = current_op \o data.buf
                  /\ has_footer_' = (has_footer_ \/ data.ok)
                  /\ has_last_label_' = promoted.has
                  /\ last_label_' = promoted.val
                  /\ pc' = "verify"
                  /\ UNCHANGED <<next_last_label, result>>
             ELSE /\ pos' = new_pos
                  /\ current_op_num' = current_op_num + 1
                  /\ has_last_label_' = promoted.has
                  /\ last_label_' = promoted.val
                  /\ pc' = IF new_pos < last_pos THEN "scan" ELSE "verify"
                  /\ UNCHANGED <<next_last_label, footer_, has_footer_, result>>
    /\ UNCHANGED <<fd_, header_, fd_size_, ops_, last_pos, scanned, walk_oob, client_vars>>

\* the operator names scanning ops_buffer for metadata records
IsMetadataOp(op) == OpType(op) = kCowLabelOp \/ OpType(op) = kCowFooterOp

\* "while (merge_ops)": the walk over ops_buffer from index n; metadata_ops
\* counts the Label and Footer records met, and oob tells that the walk read
\* ops_buffer->data()[n] with n at or beyond the vector's size
RECURSIVE MergeWalk(_, _, _, _)
MergeWalk(ops, merge_ops, metadata_ops, n) ==
    IF merge_ops = 0 THEN [metadata_ops |-> metadata_ops, oob |-> FALSE]
    ELSE IF n >= Len(ops) THEN [metadata_ops |-> metadata_ops, oob |-> TRUE]
    ELSE IF IsMetadataOp(ops[n + 1])
    THEN MergeWalk(ops, merge_ops, metadata_ops + 1, n + 1)
    ELSE MergeWalk(ops, merge_ops - 1, metadata_ops, n + 1)

\* (mutation: the erase forgets the metadata records it walked over)
EraseMerged_WithoutMetadata(ops, num_merge_ops, metadata_ops) ==
    SubSeq(ops, num_merge_ops + 1, Len(ops))

\* ops_buffer->erase(begin(), begin() + num_merge_ops + metadata_ops)
EraseMerged(ops, num_merge_ops, metadata_ops) ==
    SubSeq(ops, num_merge_ops + metadata_ops + 1, Len(ops))

\* (mutation: the digests are not compared)
FooterAccepted_CountsOnly(ops, footer) ==
    /\ Len(ops) = FooterNumOps(footer)
    /\ Len(ops) * SizeofCowOperation = FooterOpsSize(footer)

\* the checks made when has_footer_: the counts, then the digests.  csum is
\* the zeroed 32-byte buffer of ParseOps
FooterAccepted(ops, footer) ==
    LET csum == Fill(SizeofChecksum, 0)
        footer_checksum == SHA256(FooterOp(footer), SizeofCowFooterOperation,
                                  FooterFooterChecksum(footer))
        ops_csum == SHA256(Concat(ops), FooterOpsSize(footer), csum)
    IN /\ Len(ops) = FooterNumOps(footer)
       /\ Len(ops) * SizeofCowOperation = FooterOpsSize(footer)
       /\ csum = FooterOpsChecksum(footer)
       /\ ops_csum = FooterOpsChecksum(footer)

\* (mutation: the vector the reader already has is filled in place, so the
\* iterators made from the reader see the new elements)
AfterPublish_InPlace(its, published) ==
    [i \in DOMAIN its |-> [its[i] EXCEPT !.ops_ = published]]

\* "ops_ = ops_buffer": ops_buffer is a vector of its own, made by make_shared
\* in this call; the vectors the iterators its hold stay as they are
AfterPublish(its, published) == its

\* ParseOps behind its loop: the footer checks, the merge trimming, the
\* publication of the sequence
ParseFinish ==
    /\ pc = "verify"
    /\ pc' = "done"
    /\ scanned' = ops_buffer
    /\ LET k == HeaderNumMergeOps(header_)
           walk == MergeWalk(ops_buffer, k, 0, 0)
       IN IF has_footer_ /\ ~FooterAccepted(ops_buffer, footer_)
          THEN /\ result' = "false"
               /\ UNCHANGED <<ops_, ops_buffer, current_op_num, walk_oob, iters>>
          ELSE IF k = 0
          THEN /\ result' = "true"
               /\ ops_' = <<ops_buffer>>
               /\ iters' = AfterPublish(iters, ops_buffer)
               /\ UNCHANGED <<ops_buffer, current_op_num, walk_oob>>
          ELSE IF Len(ops_buffer) < k
          THEN \* CHECK(ops_buffer->size() >= merge_ops) ends the process
               /\ result' = "abort"
               /\ current_op_num' = 0
               /\ UNCHANGED <<ops_, ops_buffer, walk_oob, iters>>
          ELSE IF walk.oob
          THEN \* the walk left the vector: undefined behaviour.  The process
               \* dies, or the call returns with whatever the erase left
               /\ walk_oob' = TRUE
               /\ current_op_num' = Len(ops_buffer)
               /\ \/ /\ result' = "abort"
                     /\ UNCHANGED <<ops_, ops_buffer, iters>>
                  \/ /\ result' = "true"
                     /\ ops_buffer' = <<>>
                     /\ ops_' = <<ops_buffer'>>
                     /\ iters' = AfterPublish(iters, ops_buffer')
          ELSE /\ result' = "true"
               /\ current_op_num' = k + walk.metadata_ops
               /\ ops_buffer' = EraseMerged(ops_buffer, k, walk.metadata_ops)
               /\ ops_' = <<ops_buffer'>>
               /\ iters' = AfterPublish(iters, ops_buffer')
               /\ UNCHANGED walk_oob
    /\ UNCHANGED <<fd_, header_, footer_, fd_size_, has_footer_, last_label_,
                   has_last_label_, pos, next_last_label, last_pos, raw, data_vars>>

Next == Parse \/ ScanStep \/ ParseFinish

Spec == Init /\ [][Next]_vars

\* Parse runs to its end: the loop goes on to its next iteration, and the
\* statements behind the loop are executed.  The files are the ones with no
\* operation merged and with no footer or the footer the writer computes
\* (num_merge_ops and the footer's counts and digests play no part in the scan)
LiveDescs ==
    {d \in FileDescs :
        /\ d.merged = 0
        /\ d.foot \in {<<>>, <<CowFooter(SizeofCowOperation * Len(d.recs),
                                         Len(d.recs), 0, 0)>>}}

ParseLive == ParseOf(LiveDescs)

NextLive == ParseLive \/ ScanStep \/ ParseFinish

SpecLive == Init /\ [][NextLive]_vars /\ WF_vars(ScanStep) /\ WF_vars(ParseFinish)

(***************************************************************************)
(* Parse of files whose header may be one of another format.               *)
(***************************************************************************)
HeaderDescs ==
    {[d EXCEPT !.hdr = h] : h \in HeaderKinds,
                            d \in {f \in FileDescs : Len(f.recs) <= MaxClientOps}}

ParseAnyHeader == ParseOf(HeaderDescs)

NextHeader == ParseAnyHeader \/ ScanStep \/ ParseFinish

SpecHeader == Init /\ [][NextHeader]_vars

(***************************************************************************)
(* Parse of files whose last write was cut short by PayloadCut bytes, less *)
(* than a payload.                                                         *)
(***************************************************************************)
ShortDescs == {[d EXCEPT !.end = "short"] : d \in {f \in FileDescs : f.end = "exact"}}

ParseShortFile == ParseOf(ShortDescs)

NextShort == ParseShortFile \/ ScanStep \/ ParseFinish

SpecShort == Init /\ [][NextShort]_vars

(***************************************************************************)
(* A reader given one file after the other.                                *)
(***************************************************************************)
\* files that close with a footer: the one the writer computes, or one that
\* declares an operation too many
ReparseDescs ==
    {d \in FileDescs :
        /\ Len(d.recs) <= MaxClientOps
        /\ d.end = "exact"
        /\ d.merged = 0
        /\ \E v \in {0, 1} :
              d.foot = <<CowFooter(SizeofCowOperation * (Len(d.recs) + v),
                                   Len(d.recs) + v, 0, 0)>>}

ParseFirst == ParseOf(ReparseDescs)

ParseAgain == ReparseOf(ReparseDescs)

NextReparse == ParseFirst \/ ParseAgain \/ ScanStep \/ ParseFinish

SpecReparse == Init /\ [][NextReparse]_vars

(***************************************************************************)
(* The iterators.  Each holds its own pointer to the vector (ops_) and a   *)
(* cursor: op_iter_ counts the steps made from begin(), or from rbegin()   *)
(* for the reverse iterator.  out is the history of what the caller's loop *)
(* "while (!Done()) { Get(); Next(); }" was given.                         *)
(***************************************************************************)
\* files that close with the footer the writer computes
ClientDescs ==
    {d \in FileDescs : /\ Len(d.recs) <= MaxClientOps
                       /\ d.end = "exact"
                       /\ d.foot = <<CowFooter(SizeofCowOperation * Len(d.recs),
                                               Len(d.recs), 0, 0)>>}

ParseClientFile == ParseOf(ClientDescs)

\* CowOpIter::CowOpIter, CowOpReverseIter::CowOpReverseIter
NewIter(rev, ops) == [rev |-> rev, ops_ |-> ops, op_iter_ |-> 0, out |-> <<>>]

\* CowOpIter::Done, CowOpReverseIter::Done
Done(it) == it.op_iter_ = Len(it.ops_)

\* (mutation: the reverse iterator walks from the front)
Get_FromFront(it) == it.ops_[it.op_iter_ + 1]

\* CowOpIter::Get, CowOpReverseIter::Get
Get(it) ==
    IF it.rev THEN it.ops_[Len(it.ops_) - it.op_iter_] ELSE it.ops_[it.op_iter_ + 1]

\* std::unique_ptr<ICowOpIter> CowReader::GetOpIter()
GetOpIter ==
    /\ pc = "done" /\ result = "true"
    /\ Len(iters) < MaxIters
    /\ iters' = Append(iters, NewIter(FALSE, ops_[1]))
    /\ UNCHANGED <<reader_vars, parse_vars, raw, data_vars>>

\* std::unique_ptr<ICowOpReverseIter> CowReader::GetRevOpIter()
GetRevOpIter ==
    /\ pc = "done" /\ result = "true"
    /\ Len(iters) < MaxIters
    /\ iters' = Append(iters, NewIter(TRUE, ops_[1]))
    /\ UNCHANGED <<reader_vars, parse_vars, raw, data_vars>>

\* Get() and Next() on an iterator that is not Done (CHECK(!Done()) ends the
\* process otherwise)
IterNext ==
    \E i \in 1..Len(iters) :
        /\ ~Done(iters[i])
        /\ iters' = [iters EXCEPT ![i].out = Append(@, Get(iters[i])),
                                  ![i].op_iter_ = @ + 1]
        /\ UNCHANGED <<reader_vars, parse_vars, raw, data_vars>>

NextIter == ParseClientFile \/ ScanStep \/ ParseFinish \/ GetOpIter \/ GetRevOpIter
                \/ IterNext

SpecIter == Init /\ [][NextIter]_vars

\* iterators on a reader that is given one file after the other: the files
\* hold Copy and Zero records in turn
ShareDescs ==
    {d \in ClientDescs :
        /\ d.merged = 0
        /\ \A i \in 1..Len(d.recs) :
              d.recs[i] = CowOperation(IF i % 2 = 1 THEN kCowCopyOp ELSE kCowZeroOp,
                                       kCowCompressNone, 0, 1, 0)}

ParseSharedFirst == ParseOf(ShareDescs)

ParseSharedAgain == ReparseOf(ShareDescs)

NextShared == ParseSharedFirst \/ ParseSharedAgain \/ ScanStep \/ ParseFinish
                  \/ GetOpIter \/ GetRevOpIter \/ IterNext

SpecShared == Init /\ [][NextShared]_vars

(***************************************************************************)
(* GetRawBytes.                                                            *)
(***************************************************************************)
\* the files whose records all carry a payload, none merged
RawDescs ==
    {d \in ClientDescs :
        d.merged = 0 /\ \A i \in 1..Len(d.recs) : OpType(d.recs[i]) = kCowReplaceOp}

ParseRawFile == ParseOf(RawDescs)

\* (mutation: the test "len >= fd_size_" is left out)
InvalidDataOffset_NoLenTest(offset, len) ==
    \/ offset < SizeofCowHeader
    \/ offset >= U(fd_size_ - SizeofCowFooter)
    \/ U(offset + len) > U(fd_size_ - SizeofCowFooter)

\* "Validate the offset, taking care to acknowledge possible overflow of
\* offset+len": the condition under which GetRawBytes refuses the range
InvalidDataOffset(offset, len) ==
    \/ offset < SizeofCowHeader
    \/ offset >= U(fd_size_ - SizeofCowFooter)
    \/ len >= fd_size_
    \/ U(offset + len) > U(fd_size_ - SizeofCowFooter)

\* what read(fd, buffer, len) at offset may return: -1, or any count of bytes
\* from 1 up to what is there (0 at the end of the file)
ReadOutcomes(offset, len) ==
    LET left == IF fd_size_ > offset THEN fd_size_ - offset ELSE 0
        most == IF left < len THEN left ELSE len
    IN {-1} \cup (IF most = 0 THEN {0} ELSE 1..most)

\* the arguments tried: the edges of the header, of the data region, of the
\* file and of the word
RawOffsets ==
    {0, SizeofCowHeader - 1, SizeofCowHeader, SizeofCowHeader + 1,
     fd_size_ - SizeofCowFooter - 1, fd_size_ - SizeofCowFooter, fd_size_ - 1,
     WordMod - 1}
RawLens ==
    {0, 1, fd_size_ - SizeofCowFooter - SizeofCowHeader - 1,
     fd_size_ - SizeofCowFooter - SizeofCowHeader,
     fd_size_ - SizeofCowFooter - SizeofCowHeader + 1, fd_size_ - 1, fd_size_,
     WordMod - SizeofCowHeader - 1, WordMod - 1}

\* what the file may answer to a call of GetRawBytes(offset, len): the value
\* of read(), where the call gets that far
RawReadChoices(offset, len) ==
    IF InvalidDataOffset(offset, len) THEN {-1} ELSE ReadOutcomes(offset, len)

\* the body of GetRawBytes(offset, buffer, len, read), read() returning rv;
\* old_read is what *read held before the call
RawCall(offset, len, rv, old_read) ==
    IF InvalidDataOffset(offset, len)
    THEN [called |-> TRUE, offset |-> offset, len |-> len, ok |-> FALSE,
          read |-> old_read, seeks |-> 0, reads |-> 0]
    ELSE [called |-> TRUE, offset |-> offset, len |-> len,
          ok |-> rv >= 0, read |-> IF rv >= 0 THEN rv ELSE old_read,
          seeks |-> 1, reads |-> 1]

\* bool CowReader::GetRawBytes(uint64_t offset, void* buffer, size_t len, size_t* read)
GetRawBytes ==
    /\ pc = "done" /\ result = "true"
    /\ \E offset \in RawOffsets \cap 0..(WordMod - 1), len \in RawLens \cap 0..(WordMod - 1) :
       \E rv \in RawReadChoices(offset, len) :
          raw' = RawCall(offset, len, rv, raw.read)
    /\ UNCHANGED <<reader_vars, parse_vars, iters, data_vars>>

NextRaw == ParseRawFile \/ ScanStep \/ ParseFinish \/ GetRawBytes

SpecRaw == Init /\ [][NextRaw]_vars

(***************************************************************************)
(* ReadData and its CowDataStream.  The decompressors (cow_decompress.h)   *)
(* are clients of the stream: a decompressor calls Read any number of      *)
(* times, up to MaxReads, with lengths of its choice, hands what it        *)
(* decoded to the sink, and Decompress returns.                            *)
(***************************************************************************)
\* the operations handed to ReadData: every compression tag up to the first
\* unknown one, no payload or one of PayloadLen bytes, at an offset inside the
\* header or behind the first record
DataOps ==
    {CowOperation(kCowReplaceOp, c, n, 1, o) :
        c \in {kCowCompressNone, kCowCompressGz, kCowCompressBrotli,
               kCowCompressBrotli + 1},
        n \in {0, PayloadLen},
        o \in {SizeofCowHeader - 1, SizeofCowHeader + SizeofCowOperation}}

\* the lengths a decompressor asks the stream for
ReadLens == {0, 1, PayloadLen, WordMod - 1}

\* (mutation: an unknown tag is read as uncompressed data)
DecompressorFor_DefaultCopies(compression) ==
    CASE compression = kCowCompressGz -> "Gz"
      [] compression = kCowCompressBrotli -> "Brotli"
      [] OTHER -> "Uncompressed"

\* "switch (op.compression)": the decompressor made, "none" for the default
\* case
DecompressorFor(compression) ==
    CASE compression = kCowCompressNone -> "Uncompressed"
      [] compression = kCowCompressGz -> "Gz"
      [] compression = kCowCompressBrotli -> "Brotli"
      [] OTHER -> "none"

\* CowDataStream(reader, offset, data_length)
NewStream(offset, data_length) ==
    [made |-> TRUE, offset_ |-> offset, data_length_ |-> data_length,
     remaining_ |-> data_length, o |-> offset, n |-> data_length, delivered |-> 0,
     calls |-> 0, last |-> NoRead]

\* bool CowReader::ReadData(const CowOperation& op, IByteSink* sink), up to the
\* call of Decompress
ReadDataBegin ==
    /\ pc = "done" /\ result = "true"
    /\ read_data.at # "decoding"
    /\ \E op \in DataOps :
       \E decompressor \in {DecompressorFor(OpCompression(op))} :
          /\ read_data' = [at |-> IF decompressor = "none" THEN "returned" ELSE "decoding",
                           op |-> op, decompressor |-> decompressor, ok |-> FALSE,
                           raw_calls |-> 0, sink |-> 0, failed_read |-> FALSE]
          /\ stream' = IF decompressor = "none" THEN NoStream
                       ELSE NewStream(U(OpSource(op)), OpDataLength(op))
    /\ raw' = NoRawCall
    /\ UNCHANGED <<reader_vars, parse_vars, iters>>

\* (mutation: the stream's offset is not moved by what was read)
Advance_KeepsOffset(st, read) ==
    [st EXCEPT !.remaining_ = U(@ - read)]

\* "offset_ += *read; remaining_ -= *read"
Advance(st, read) ==
    [st EXCEPT !.offset_ = U(@ + read), !.remaining_ = U(@ - read)]

\* what a decompressor hands to the sink for read bytes of input: the bytes
\* themselves when the data is not compressed; a codec may keep them for later
SinkChoices(decompressor, read) ==
    IF decompressor = "Uncompressed" THEN {read} ELSE {0, read}

\* bool CowDataStream::Read(void* buffer, size_t length, size_t* read), called
\* by the decompressor
StreamRead ==
    /\ read_data.at = "decoding"
    /\ stream.calls < MaxReads
    /\ \E length \in ReadLens :
       LET to_read == IF length < stream.remaining_ THEN length ELSE stream.remaining_
           call == [called |-> TRUE, length |-> length, before |-> stream.delivered,
                    ok |-> TRUE, read |-> 0, raw_called |-> FALSE,
                    req_offset |-> 0, req_len |-> 0]
       IN IF to_read = 0
          THEN /\ stream' = [stream EXCEPT !.calls = @ + 1, !.last = call]
               /\ UNCHANGED <<raw, read_data>>
          ELSE \E rv \in RawReadChoices(stream.offset_, to_read) :
               \E got \in {RawCall(stream.offset_, to_read, rv, stream.last.read)} :
               \E out \in SinkChoices(read_data.decompressor, IF got.ok THEN got.read ELSE 0) :
                  /\ raw' = got
                  /\ stream' =
                        [(IF got.ok THEN Advance(stream, got.read) ELSE stream)
                            EXCEPT !.calls = @ + 1,
                                   !.delivered = IF got.ok THEN @ + got.read ELSE @,
                                   !.last = [call EXCEPT !.ok = got.ok,
                                                         !.read = got.read,
                                                         !.raw_called = TRUE,
                                                         !.req_offset = stream.offset_,
                                                         !.req_len = to_read]]
                  /\ read_data' = [read_data EXCEPT !.raw_calls = @ + 1,
                                                    !.sink = @ + out,
                                                    !.failed_read = @ \/ ~got.ok]
    /\ UNCHANGED <<reader_vars, parse_vars, iters>>

\* Decompress returns, and ReadData with it: false if a Read failed
ReadDataEnd ==
    /\ read_data.at = "decoding"
    /\ read_data' = [read_data EXCEPT !.at = "returned", !.ok = ~read_data.failed_read]
    /\ UNCHANGED <<reader_vars, parse_vars, iters, raw, stream>>

NextData == ParseRawFile \/ ScanStep \/ ParseFinish \/ ReadDataBegin \/ StreamRead
                \/ ReadDataEnd

SpecData == Init /\ [][NextData]_vars

(***************************************************************************)
(* The accessors.                                                          *)
(***************************************************************************)
\* bool CowReader::GetLastLabel(uint64_t* label): <<>> for false, else <<*label>>
GetLastLabel == IF ~has_last_label_ THEN <<>> ELSE <<last_label_>>

\* bool CowReader::GetFooter(CowFooter* footer): <<>> for false, else <<*footer>>
GetFooter == IF ~has_footer_ THEN <<>> ELSE <<footer_>>

(***************************************************************************)
(* What the claims speak of.                                               *)
(***************************************************************************)
Returned(r) == pc = "done" /\ result = r

IsLabel(op) == OpType(op) = kCowLabelOp
IsFooterRecord(op) == OpType(op) = kCowFooterOp
IsRealOp(op) == ~IsLabel(op) /\ ~IsFooterRecord(op)

Indices(s, P(_)) == {i \in 1..Len(s) : P(s[i])}
Max(S) == CHOOSE x \in S : \A y \in S : y <= x

\* the value of the last Label among s[1..n], as GetLastLabel would give it
LastLabelWithin(s, n) ==
    LET at == {i \in Indices(s, IsLabel) : i <= n}
    IN IF at = {} THEN <<>> ELSE <<OpSource(s[Max(at)])>>

\* no footer: none recognised at the end of the file, none met by the scan
NoFooter == ~has_footer_ /\ Indices(scanned, IsFooterRecord) = {}

\* C1: for a file with a valid header and no footer, after Parse succeeds
\* GetLastLabel gives the value of the last Label record that was followed by
\* at least one more record read by the scan, and nothing if there is no such
\* Label; a Label that is the last record read is never reported.
C1_PendingLabel ==
    (Returned("true") /\ NoFooter)
        => GetLastLabel = LastLabelWithin(scanned, Len(scanned) - 1)

\* a footer-less file parsed whose last record read is a Label, behind another
\* Label with another value, which is the one reported
C1_Witness ==
    /\ Returned("true") /\ NoFooter
    /\ Len(scanned) >= 2
    /\ IsLabel(scanned[Len(scanned)])
    /\ GetLastLabel # <<>>
    /\ GetLastLabel # <<OpSource(scanned[Len(scanned)])>>

\* the file Parse was given, as the writer composed it
Written == fd_[1]
WrittenFooterless == Written.foot = <<>> /\ Written.end = "exact"

\* C2: given a footer-less file whose last record is a Label with value L,
\* one more complete record appended behind it, of any type and any payload
\* length, makes Parse succeed with GetLastLabel giving L.  (The files are the
\* ones long enough for the read of the trailing footer-size region.)
C2_AppendedRecordCommits ==
    (/\ pc = "done"
     /\ WrittenFooterless
     /\ fd_size_ >= SizeofCowFooter
     /\ Len(Written.recs) >= 2
     /\ IsLabel(Written.recs[Len(Written.recs) - 1]))
        => /\ result = "true"
           /\ GetLastLabel = <<OpSource(Written.recs[Len(Written.recs) - 1])>>

\* the real operations among the records
RealOps(s) == Cardinality(Indices(s, IsRealOp))

\* C3: if the header's num_merge_ops is k > 0 and fewer than k real operations
\* were parsed, Parse reports a failure to its caller, and the trimming walk
\* reads no element at or beyond the end of the parsed sequence.
C3_TooFewRealOpsFails ==
    (/\ pc = "done"
     /\ HeaderNumMergeOps(header_) > 0
     /\ RealOps(scanned) < HeaderNumMergeOps(header_))
        => /\ result = "false"
           /\ ~walk_oob

\* the index in s of its k-th real operation
KthRealOp(s, k) ==
    CHOOSE i \in Indices(s, IsRealOp) :
        Cardinality({j \in Indices(s, IsRealOp) : j <= i}) = k

\* Parse trimmed k > 0 merged operations off a sequence that had them
Trimmed ==
    /\ Returned("true")
    /\ HeaderNumMergeOps(header_) > 0
    /\ RealOps(scanned) >= HeaderNumMergeOps(header_)

\* the sequence the reader exposes
Exposed == ops_[1]

\* C4 as claimed: after trimming k operations the exposed sequence has as many
\* elements as real operations were parsed, less k; it is the suffix behind
\* the k-th real operation, and no Label or Footer record from before the
\* k-th real operation is left in it.  (Stated for the files in which the
\* scan met no inline footer record.)
C4_TrimmedLengthIsRealCount ==
    (Trimmed /\ Indices(scanned, IsFooterRecord) = {}) =>
        LET k == HeaderNumMergeOps(header_)
        IN /\ Len(Exposed) = RealOps(scanned) - k
           /\ Exposed = SubSeq(scanned, KthRealOp(scanned, k) + 1, Len(scanned))

\* C4 as amended: after trimming k operations the exposed sequence is the
\* suffix of the parsed sequence behind its k-th real operation: it holds as
\* many real operations as were parsed, less k, and its length is the parsed
\* length less k and less the Label and Footer records that preceded the k-th
\* real operation (Label and Footer records behind it stay in the sequence).
C4_TrimmedIsSuffix ==
    Trimmed =>
        LET k == HeaderNumMergeOps(header_)
            kth == KthRealOp(scanned, k)
            before == {i \in Indices(scanned, IsLabel) \cup
                               Indices(scanned, IsFooterRecord) : i < kth}
        IN /\ Exposed = SubSeq(scanned, kth + 1, Len(scanned))
           /\ RealOps(Exposed) = RealOps(scanned) - k
           /\ Len(Exposed) = Len(scanned) - k - Cardinality(before)

\* a trimming that removed a Label with the merged operation and left one in
C4_Witness ==
    /\ Trimmed
    /\ IsLabel(scanned[1])
    /\ Len(Exposed) < Len(scanned) - HeaderNumMergeOps(header_)
    /\ Indices(Exposed, IsLabel) # {}

\* the operations parsed: the records read by the scan, the inline footer
\* record (which is no operation) left out
OpsParsed == SelectSeq(scanned, LAMBDA op : ~IsFooterRecord(op))

\* C5: whenever a footer is present, Parse succeeds only if the number of
\* operations parsed (before merge trimming) is the footer's num_ops and
\* their total record size is the footer's ops_size.
C5_FooterCountsMatch ==
    (Returned("true") /\ has_footer_)
        => /\ Len(OpsParsed) = FooterNumOps(footer_)
           /\ Len(OpsParsed) * SizeofCowOperation = FooterOpsSize(footer_)

\* the scan met an inline footer record
InlineFooterMet ==
    pc \in {"verify", "done"} /\ Indices(ops_buffer \o scanned, IsFooterRecord) # {}

\* C6: when the scan meets an inline footer record, the record is captured as
\* the footer and the scan stops; the record is not counted as an operation:
\* it is not in the count compared with the footer's num_ops, and it is not
\* an element of the sequence exposed to the iterators.
C6_InlineFooterNotAnOperation ==
    /\ (pc = "verify" /\ InlineFooterMet) =>
           /\ FooterOp(footer_) = ops_buffer[Len(ops_buffer)]
           /\ Indices(ops_buffer, IsFooterRecord) = {Len(ops_buffer)}
           /\ current_op_num = Len(ops_buffer) - 1
    /\ (Returned("true") /\ ~walk_oob) =>
           /\ Indices(Exposed, IsFooterRecord) = {}
           /\ has_footer_ => Len(OpsParsed) = FooterNumOps(footer_)

\* C7: whenever Parse succeeds with a footer recognised (at the end of the
\* file, or inline with its data part read), GetLastLabel gives the value of
\* the last Label record scanned, whether or not merge trimming removed it and
\* also when the footer follows it at once; it gives nothing only if no Label
\* was scanned.
C7_FooterCommitsLastLabel ==
    (Returned("true") /\ has_footer_)
        => GetLastLabel = LastLabelWithin(scanned, Len(scanned))

\* a file with a footer parsed whose last operation is a Label, which is the
\* one reported, and whose first record is a Label that merge trimming removed
C7_Witness ==
    /\ Returned("true") /\ has_footer_ /\ Trimmed
    /\ IsLabel(scanned[1])
    /\ IsLabel(OpsParsed[Len(OpsParsed)])
    /\ GetLastLabel = <<OpSource(OpsParsed[Len(OpsParsed)])>>
    /\ GetLastLabel # <<OpSource(scanned[1])>>
    /\ Len(Exposed) = 1

\* the digest of data, as the reader's digest routine computes it into a
\* zeroed buffer
Digest(data) == SHA256(data, Len(data), Fill(SizeofChecksum, 0))

\* C10: with a footer present, Parse fails whenever the stored digest of the
\* footer metadata differs from the digest computed over the footer metadata,
\* and whenever the stored digest of the operation records differs from the
\* digest computed over the parsed operation records.
C10_DigestMismatchFails ==
    (/\ pc = "done"
     /\ has_footer_
     /\ \/ FooterFooterChecksum(footer_) # Digest(FooterOp(footer_))
        \/ FooterOpsChecksum(footer_) # Digest(Concat(scanned)))
        => result = "false"

Reverse(s) == [i \in 1..Len(s) |-> s[Len(s) + 1 - i]]

\* the records of the file behind the merged ones, in the order of the file
OnDiskOrder ==
    SubSeq(Written.recs, Len(Written.recs) - Len(Exposed) + 1, Len(Written.recs))

\* C8: the forward iterator yields the operations of the parsed, trimmed
\* sequence in the order they have in the file, the reverse iterator yields
\* the same operations in the reverse order, each once: the whole output of
\* one, reversed, is the whole output of the other.
C8_IteratorsMirror ==
    /\ \A i \in 1..Len(iters) :
          LET it == iters[i]
              order == IF it.rev THEN Reverse(OnDiskOrder) ELSE OnDiskOrder
          IN /\ it.out = SubSeq(order, 1, it.op_iter_)
             /\ Done(it) => it.out = order
    /\ \A i, j \in 1..Len(iters) :
          (Done(iters[i]) /\ Done(iters[j]) /\ iters[i].rev /\ ~iters[j].rev)
              => Reverse(iters[i].out) = iters[j].out

\* a forward and a reverse iterator, both drained, over a trimmed sequence of
\* two different operations
C8_Witness ==
    /\ Len(iters) = 2
    /\ iters[1].rev /\ ~iters[2].rev
    /\ Done(iters[1]) /\ Done(iters[2])
    /\ Len(iters[1].out) = 2
    /\ iters[1].out[1] # iters[1].out[2]
    /\ iters[2].out[1] = iters[1].out[2]

\* C9: GetRawBytes(offset, len) fails, and neither seeks nor reads, whenever
\* offset lies below the end of the header, or offset + len reaches into or
\* beyond the last footer-size bytes of the file, also when offset + len
\* overflows.
C9_RawBytesBounds ==
    (/\ raw.called
     /\ \/ raw.offset < SizeofCowHeader
        \/ raw.offset + raw.len > fd_size_ - SizeofCowFooter)
        => ~raw.ok /\ raw.seeks = 0 /\ raw.reads = 0

\* a call refused whose offset + len overflows the word to a sum that lies
\* inside the data region
C9_Witness ==
    /\ raw.called /\ ~raw.ok /\ raw.seeks = 0
    /\ raw.offset >= SizeofCowHeader
    /\ raw.offset < fd_size_ - SizeofCowFooter
    /\ raw.offset + raw.len >= WordMod
    /\ U(raw.offset + raw.len) <= fd_size_ - SizeofCowFooter

\* C11: a file with a valid header, no footer and num_merge_ops = 0, whose
\* records are all readable, parses successfully (the absence of a footer is
\* never a parse failure), and afterwards GetFooter reports that there is
\* none, rather than the bytes read from the trailing footer-size region.
C11_FooterlessParses ==
    (pc = "done" /\ WrittenFooterless /\ Written.merged = 0)
        => /\ result = "true"
           /\ GetFooter = <<>>

\* C13: Parse fails if any one of the header's magic, header_size,
\* footer_size, major_version or minor_version differs from the single
\* supported value; in that case the call scans no operation and publishes no
\* operation sequence.
C13_ForeignHeaderFails ==
    (pc = "done" /\ (Written.hdr # "good" \/ ~HeaderAccepted(header_)))
        => /\ result = "false"
           /\ ops_buffer = <<>> /\ scanned = <<>> /\ current_op_num = 0
           /\ ops_ = <<>>

\* a file refused for its minor version alone: it carries records and the
\* footer the writer computes for them, and its other header fields are the
\* supported ones
C13_Witness ==
    /\ Returned("false")
    /\ Written.hdr = "minor"
    /\ HeaderAccepted_AnyMinor(header_)
    /\ Len(Written.recs) = 2
    /\ Written.end = "exact"
    /\ Written.foot = <<CowFooter(SizeofCowOperation * 2, 2, 0, 0)>>

\* C14 as claimed: the digest computation being compiled out, the digest
\* comparisons compare two identical placeholder values: for every file with a
\* footer whose num_ops and ops_size match the parsed operations, the digest
\* checks pass (Parse does not fail), whatever digest bytes the footer stores.
\* (Stated for the files in which the scan met no inline footer record.)
C14_DigestChecksAlwaysPass ==
    (/\ pc = "done"
     /\ has_footer_
     /\ Indices(scanned, IsFooterRecord) = {}
     /\ Len(OpsParsed) = FooterNumOps(footer_)
     /\ Len(OpsParsed) * SizeofCowOperation = FooterOpsSize(footer_))
        => result # "false"

\* C14 as amended: the digest computation being compiled out, the computed
\* digest is the all-zero placeholder, and it is compared with the digest the
\* footer stores for the operations: for every file with a footer whose
\* num_ops and ops_size match the records in the parse buffer, the digest
\* checks pass if and only if the stored digest of the operations is all
\* zero, whatever the stored digest of the footer is.
C14_DigestChecksPassOnZero ==
    (/\ pc = "done"
     /\ has_footer_
     /\ Len(scanned) = FooterNumOps(footer_)
     /\ Len(scanned) * SizeofCowOperation = FooterOpsSize(footer_))
        => (result # "false" <=> FooterOpsChecksum(footer_) = Fill(SizeofChecksum, 0))

\* a file accepted although the footer's digest of itself is not the
\* placeholder: it carries operations, and the stored digest of them is zero
C14_Witness ==
    /\ Returned("true")
    /\ has_footer_
    /\ Len(scanned) = FooterNumOps(footer_)
    /\ Len(scanned) > 0
    /\ FooterOpsChecksum(footer_) = Fill(SizeofChecksum, 0)
    /\ FooterFooterChecksum(footer_) # Fill(SizeofChecksum, 0)

\* the position in the file at which the last record of the parse buffer
\* starts
LastRecordStart == pos - SizeofCowOperation - GetNextOpOffset(ops_buffer[Len(ops_buffer)])

\* C15: when the scan ends without having met an inline footer record: with no
\* footer present it has read every record that starts where one more full
\* record still fits in the file, the record that starts exactly at (file
\* size - record size) included; with a footer present it has read exactly the
\* records that start before the trailing footer region.  No complete trailing
\* record is missing from the parsed sequence.
C15_ScanReadsEveryRecord ==
    (pc = "verify" /\ Indices(ops_buffer, IsFooterRecord) = {}) =>
        /\ has_footer_ =>
              /\ pos >= fd_size_ - SizeofCowFooter
              /\ ops_buffer # <<>> => LastRecordStart < fd_size_ - SizeofCowFooter
        /\ ~has_footer_ => pos + SizeofCowOperation > fd_size_
        /\ WrittenFooterless => ops_buffer = Written.recs

\* the position in the file behind the i-th record of s and its payload, the
\* records lying one behind the other from the end of the header
RECURSIVE EndOfRecord(_, _)
EndOfRecord(s, i) ==
    IF i = 0 THEN SizeofCowHeader
    ELSE EndOfRecord(s, i - 1) + SizeofCowOperation + GetNextOpOffset(s[i])

\* where the data region of the parsed file ends
DataRegionEnd == IF has_footer_ THEN fd_size_ - SizeofCowFooter ELSE fd_size_

\* C18: every operation in the sequence produced by a successful Parse has its
\* record and its whole payload inside the data region of the file: the
\* position behind the record and its payload is at most the start of the
\* trailing footer region when a footer is present, and at most the file size
\* when it is absent.  An operation whose payload was cut short by a torn
\* write is never accepted into the sequence.
C18_OperationsInsideDataRegion ==
    (Returned("true") /\ ~walk_oob) =>
        \A i \in 1..Len(scanned) :
            (i > Len(scanned) - Len(Exposed) /\ ~IsFooterRecord(scanned[i]))
                => EndOfRecord(scanned, i) <= DataRegionEnd

\* C20: the record scan loop of ParseOps terminates on every finite file: on
\* every iteration the scan position grows by at least the size of one record
\* (or the read fails and Parse returns), so the loop makes at most
\* (file size / record size) iterations and ends: by reaching the last
\* position, by meeting an inline footer, or by a failed read.
C20_ScanTerminates ==
    /\ [][pc = "scan" => \/ pos' >= pos + SizeofCowOperation
                         \/ pc' = "done" /\ result' = "false"]_vars
    /\ [](pc \in {"scan", "verify"}
            => Len(ops_buffer) <= fd_size_ \div SizeofCowOperation)
    /\ (pc = "scan") ~> (pc # "scan")

\* a loop that ended by reaching the last position after as many iterations
\* as the file has records, one of them followed by a payload
C20_Witness ==
    /\ pc = "verify"
    /\ pos >= last_pos
    /\ Len(ops_buffer) = MaxOps
    /\ ops_buffer = Written.recs
    /\ \E i \in 1..Len(ops_buffer) : GetNextOpOffset(ops_buffer[i]) > 0

\* C19: after any sequence of Parse calls on one reader, what GetLastLabel
\* gives depends only on the file given to the most recent Parse: a label
\* committed while an earlier file was parsed (also by a Parse that failed) is
\* never reported for a later file in which no Label is committed; so none is
\* reported for a file that holds no Label record at all.
C19_LastLabelOfLastFile ==
    (pc = "done" /\ Indices(Written.recs, IsLabel) = {}) => GetLastLabel = <<>>

\* what an iterator yields when it runs alone over the sequence it was made
\* from
YieldedAlone(it) == IF it.rev THEN Reverse(it.ops_) ELSE it.ops_

\* C17: under any interleaving of Done, Get and Next calls on forward and
\* reverse iterators made from one successfully parsed reader, no call
\* modifies the shared operation sequence or the cursor of another iterator;
\* each iterator reports Done exactly after as many Next calls as the sequence
\* has elements, and has yielded the elements it would yield if it ran alone;
\* a later Parse on the reader does not change what the iterators already made
\* yield.
C17_IteratorsIndependent ==
    /\ [](\A i \in 1..Len(iters) :
             LET it == iters[i]
             IN /\ it.op_iter_ <= Len(it.ops_)
                /\ Len(it.out) = it.op_iter_
                /\ it.out = SubSeq(YieldedAlone(it), 1, Len(it.out))
                /\ Done(it) <=> Len(it.out) = Len(it.ops_))
    /\ [][/\ Len(iters') >= Len(iters)
          /\ \A i \in 1..Len(iters) :
                /\ iters'[i].ops_ = iters[i].ops_
                /\ iters'[i].rev = iters[i].rev
                /\ iters'[i] # iters[i] =>
                      /\ iters'[i].op_iter_ = iters[i].op_iter_ + 1
                      /\ \A j \in 1..Len(iters) : j # i => iters'[j] = iters[j]
                      /\ UNCHANGED <<reader_vars, parse_vars>>]_vars

\* a reverse iterator that has yielded the two operations of the file parsed
\* first, and a forward iterator that has yielded the one operation of the
\* file parsed later, which is what the reader exposes now
C17_Witness ==
    /\ Len(iters) = 2
    /\ iters[1].rev /\ ~iters[2].rev
    /\ Done(iters[1]) /\ Done(iters[2])
    /\ Len(iters[1].out) = 2 /\ iters[1].out[1] # iters[1].out[2]
    /\ Len(iters[2].out) = 1
    /\ Returned("true") /\ Exposed = iters[2].ops_

\* the compression tags ReadData knows
KnownCompression == {kCowCompressNone, kCowCompressGz, kCowCompressBrotli}

\* C12: ReadData on an operation whose compression tag is none of none, gz
\* and brotli returns failure before the decode stream is constructed or
\* read: it calls GetRawBytes not once, neither seeks nor reads the file, and
\* writes nothing to the sink.
C12_UnknownCompressionFails ==
    (read_data.at # "idle" /\ OpCompression(read_data.op) \notin KnownCompression)
        => /\ read_data.at = "returned" /\ ~read_data.ok
           /\ ~stream.made
           /\ read_data.raw_calls = 0 /\ ~raw.called
           /\ raw.seeks = 0 /\ raw.reads = 0
           /\ read_data.sink = 0

\* ReadData has refused an operation with an unknown tag whose payload lies in
\* the data region of the parsed file
C12_Witness ==
    /\ read_data.at = "returned" /\ ~read_data.ok
    /\ OpCompression(read_data.op) = kCowCompressBrotli + 1
    /\ OpDataLength(read_data.op) = PayloadLen
    /\ ~InvalidDataOffset(OpSource(read_data.op), OpDataLength(read_data.op))

Min(a, b) == IF a < b THEN a ELSE b

\* C16: for a CowDataStream built with offset o and data_length n, over any
\* sequence of Read calls: the bytes delivered in total never exceed n; each
\* Read asks GetRawBytes for min(length, remaining) bytes at file offset o
\* plus the bytes delivered so far; once n bytes are delivered every further
\* Read returns success with 0 bytes and does not call GetRawBytes; and a Read
\* whose GetRawBytes fails leaves the stream's offset and remaining count as
\* they were.
C16_StreamBounded ==
    /\ [](stream.made =>
            /\ stream.delivered <= stream.n
            /\ stream.last.called =>
                  LET remaining == stream.n - stream.last.before
                      to_read == Min(stream.last.length, remaining)
                  IN /\ stream.last.raw_called <=> to_read > 0
                     /\ stream.last.raw_called =>
                           /\ stream.last.req_offset = stream.o + stream.last.before
                           /\ stream.last.req_len = to_read
                     /\ remaining = 0 =>
                           /\ stream.last.ok /\ stream.last.read = 0
                           /\ ~stream.last.raw_called)
    /\ [][(/\ stream.made /\ stream'.made
           /\ stream'.calls = stream.calls + 1
           /\ ~stream'.last.ok)
              => /\ stream'.offset_ = stream.offset_
                 /\ stream'.remaining_ = stream.remaining_
                 /\ stream'.delivered = stream.delivered]_vars

\* a stream drained by short reads and then read once more: the last Read
\* asked for bytes and was given none
C16_Witness ==
    /\ stream.made
    /\ stream.n = PayloadLen
    /\ stream.delivered = stream.n
    /\ stream.calls = MaxReads
    /\ stream.last.before = stream.n
    /\ stream.last.length > 0
    /\ stream.last.ok /\ stream.last.read = 0

====
